---- MODULE Spec2Model ----
(***************************************************************************)
(* Fourier prefetcher: per-IP delta history, Goertzel period detection,    *)
(* stability-gated pattern replay, confidence tracking and the prefetch    *)
(* gate.  The entry layout and the algorithm follow                        *)
(* src/prefetcher/fourier/DESIGN.md and src/prefetcher/fourier/fourier.h;  *)
(* the parts of the access handler the repository does not carry (entry    *)
(* initialisation, the analysis cadence counter, clearing of                *)
(* has_prediction, advance() on the replay path only, the argmax           *)
(* tie-break) follow spec.md sections 4.1-4.7.                              *)
(***************************************************************************)
EXTENDS Integers, Sequences, FiniteSets, TLC

(***************************************************************************)
(* Program constants.                                                      *)
(***************************************************************************)
DELTA_BUFF_SIZE == 24
FREQ_BINS_SIZE == 6
MAX_PERIOD == 12
CONF_MAX == 7
CONF_MISS_PENALTY == 2
CONF_THRESHOLD == 3
STABILITY_REQUIRED == 3
STRIDE_LEN == 4
ANALYSIS_INTERVAL == 4
BLOCK_SIZE == 64
PAGE_SIZE == 4096
\* POWER_THRESHOLD is a tunable the design names without a value; 0 is the
\* most permissive choice (any energy at a candidate bin counts).
POWER_THRESHOLD == 0

(***************************************************************************)
(* Bounds of the model.  Addresses are AddrBits wide (the program's are    *)
(* 64 bits wide) and wrap at 2^AddrBits; the table holds MaxTable entries  *)
(* (the program's holds 256).                                              *)
(***************************************************************************)
AddrBits == 14
MaxTable == 2
MaxRun == 40
MaxShort == 2
MaxAfter == 6
DeltaBits == 6        \* width of a stored delta (int16_t), scaled with AddrBits

RECURSIVE Pow2(_)
Pow2(n) == IF n = 0 THEN 1 ELSE 2 * Pow2(n - 1)

AddrSpace == Pow2(AddrBits)
LineSpace == AddrSpace \div BLOCK_SIZE

Periods == <<2, 3, 4, 6, 8, 12>>

None == "none"

(***************************************************************************)
(* Exact arithmetic for the Goertzel recurrence.  coeff = 2*cos(2*pi/P) is *)
(* an integer for P in {2,3,4,6}, sqrt(2) for P = 8 and sqrt(3) for        *)
(* P = 12.  A recurrence value is a pair <<a, b>> standing for             *)
(* a + b*sqrt(r); a power is a triple <<a, b, c>> standing for             *)
(* a + b*sqrt(2) + c*sqrt(3).  Floating-point rounding is not modelled:    *)
(* two powers are equal here exactly when they are equal as real numbers.  *)
(***************************************************************************)
Radicand(P) == IF P = 12 THEN 3 ELSE 2

Coeff(P) ==
  CASE P = 2 -> <<-2, 0>>
    [] P = 3 -> <<-1, 0>>
    [] P = 4 -> <<0, 0>>
    [] P = 6 -> <<1, 0>>
    [] P = 8 -> <<0, 1>>
    [] P = 12 -> <<0, 1>>

QAdd(x, y) == <<x[1] + y[1], x[2] + y[2]>>
QSub(x, y) == <<x[1] - y[1], x[2] - y[2]>>
QMul(x, y, r) == <<x[1] * y[1] + r * x[2] * y[2], x[1] * y[2] + x[2] * y[1]>>

Sgn(n) == IF n > 0 THEN 1 ELSE IF n < 0 THEN -1 ELSE 0

\* sign of u + v*sqrt(r), r in {2, 3}
SignR(u, v, r) ==
  IF v = 0 THEN Sgn(u)
  ELSE IF u = 0 THEN Sgn(v)
  ELSE IF Sgn(u) = Sgn(v) THEN Sgn(u)
  ELSE IF u * u > r * v * v THEN Sgn(u) ELSE Sgn(v)

\* sign of a + b*sqrt(2) + c*sqrt(3)
Sign3(p) ==
  LET a == p[1]
      b == p[2]
      c == p[3]
  IN IF c = 0 THEN SignR(a, b, 2)
     ELSE IF b = 0 THEN SignR(a, c, 3)
     ELSE LET sl == SignR(a, b, 2)      \* sign of the left side a + b*sqrt(2)
              sr == Sgn(-c)             \* sign of the right side -c*sqrt(3)
          IN IF sl # sr THEN (IF sl > sr THEN 1 ELSE -1)
             ELSE sl * SignR(a * a + 2 * b * b - 3 * c * c, 2 * a * b, 2)

PowerGreater(p, q) == Sign3(<<p[1] - q[1], p[2] - q[2], p[3] - q[3]>>) > 0

(***************************************************************************)
(* goertzel_power: the single-bin recurrence over the N buffered samples,  *)
(* read from slot head (the oldest once the buffer is full).               *)
(***************************************************************************)
RECURSIVE GoertzelLoop(_, _, _, _, _, _, _)
GoertzelLoop(buf, head, N, P, i, s1, s2) ==
  IF i = N THEN <<s1, s2>>
  ELSE LET s0 == QSub(QAdd(<<buf[((head + i) % N) + 1], 0>>,
                          QMul(Coeff(P), s1, Radicand(P))), s2)
       IN CHOOSE r \in {GoertzelLoop(buf, head, N, P, i + 1, v, s1) : v \in {s0}} : TRUE

goertzel_power(buf, head, N, P) ==
  LET r == Radicand(P)
      Power(s1, s2) ==
        LET pw == QSub(QAdd(QMul(s1, s1, r), QMul(s2, s2, r)),
                       QMul(Coeff(P), QMul(s1, s2, r), r))
        IN IF r = 2 THEN <<pw[1], pw[2], 0>> ELSE <<pw[1], 0, pw[2]>>
  IN CHOOSE p \in {Power(s[1], s[2]) :
                   s \in {GoertzelLoop(buf, head, N, P, 0, <<0, 0>>, <<0, 0>>)}} : TRUE

(***************************************************************************)
(* detect: the candidate with the highest power; the scan goes from the    *)
(* smallest period up and replaces the best only on a strictly larger      *)
(* power, so ties go to the smaller period.                                *)
(***************************************************************************)
\* mutant: the scan keeps the last maximum, so ties go to the larger period
RECURSIVE DetectLoop_last(_, _, _, _)
DetectLoop_last(buf, head, i, best) ==
  IF i > FREQ_BINS_SIZE THEN best
  ELSE LET pw == goertzel_power(buf, head, DELTA_BUFF_SIZE, Periods[i])
           nb == IF ~PowerGreater(best.power, pw)
                 THEN [period |-> Periods[i], power |-> pw]
                 ELSE best
       IN CHOOSE r \in {DetectLoop_last(buf, head, i + 1, b) : b \in {nb}} : TRUE

RECURSIVE DetectLoop(_, _, _, _)
DetectLoop(buf, head, i, best) ==
  IF i > FREQ_BINS_SIZE THEN best
  ELSE LET pw == goertzel_power(buf, head, DELTA_BUFF_SIZE, Periods[i])
           nb == IF PowerGreater(pw, best.power)
                 THEN [period |-> Periods[i], power |-> pw]
                 ELSE best
       IN CHOOSE r \in {DetectLoop(buf, head, i + 1, b) : b \in {nb}} : TRUE

detect(buf, head) ==
  CHOOSE r \in {DetectLoop(buf, head, 2, [period |-> Periods[1], power |-> p]) :
                p \in {goertzel_power(buf, head, DELTA_BUFF_SIZE, Periods[1])}} : TRUE

(***************************************************************************)
(* Addresses, cache lines and pages.  Arithmetic on addresses wraps at the *)
(* address width, as unsigned machine arithmetic does.                     *)
(***************************************************************************)
LineOf(addr) == addr \div BLOCK_SIZE
PageOf(addr) == addr \div PAGE_SIZE

\* current_cl_addr - entry.last_cl_addr as a signed number: the unsigned
\* difference of the two line addresses read in two's complement
SignedDelta(cur_cl, last_cl) ==
  LET u == (cur_cl - last_cl) % LineSpace
  IN IF u >= LineSpace \div 2 THEN u - LineSpace ELSE u

\* addr + predicted_delta * BLOCK_SIZE in unsigned arithmetic
PrefetchAddr(addr, predicted_delta) ==
  (addr + predicted_delta * BLOCK_SIZE) % AddrSpace

\* mutant: the page boundary check left out
SamePage_unchecked(pf_addr, addr) == TRUE

\* (pf_addr >> LOG2_PAGE_SIZE) == (addr >> LOG2_PAGE_SIZE)
SamePage(pf_addr, addr) == PageOf(pf_addr) = PageOf(addr)

(***************************************************************************)
(* The per-IP entry.  tick is the analysis cadence counter: the number of  *)
(* accesses of the entry modulo ANALYSIS_INTERVAL, running continuously.   *)
(***************************************************************************)
ZeroBuf == [i \in 1..DELTA_BUFF_SIZE |-> 0]
ZeroPattern == [i \in 1..MAX_PERIOD |-> 0]

NewEntry(ip, cl_addr) ==
  [ip |-> ip,
   last_cl_addr |-> cl_addr,
   delta_buf |-> ZeroBuf,
   buf_head |-> 0,
   buf_count |-> 0,
   pattern |-> ZeroPattern,
   period |-> 0,
   phase |-> 0,
   confidence |-> 0,
   stability |-> 0,
   last_prediction |-> 0,
   has_prediction |-> FALSE,
   tick |-> 0]

(***************************************************************************)
(* DeltaBuffer                                                             *)
(***************************************************************************)
\* conversion of a delta to the element type of delta_buf (int16_t):
\* the low DeltaBits bits, read in two's complement
Narrow(d) ==
  LET u == d % Pow2(DeltaBits)
  IN IF u >= Pow2(DeltaBits - 1) THEN u - Pow2(DeltaBits) ELSE u

\* mutant: the write pointer wraps one slot early, so a full buffer
\* overwrites the second-oldest delta instead of the oldest
push_early_wrap(e, delta) ==
  [e EXCEPT !.delta_buf = [e.delta_buf EXCEPT ![e.buf_head + 1] = delta],
            !.buf_head = (e.buf_head + 1) % (DELTA_BUFF_SIZE - 1),
            !.buf_count = IF e.buf_count < DELTA_BUFF_SIZE
                          THEN e.buf_count + 1 ELSE e.buf_count]

push(e, delta) ==
  [e EXCEPT !.delta_buf = [e.delta_buf EXCEPT ![e.buf_head + 1] = Narrow(delta)],
            !.buf_head = (e.buf_head + 1) % DELTA_BUFF_SIZE,
            !.buf_count = IF e.buf_count < DELTA_BUFF_SIZE
                          THEN e.buf_count + 1 ELSE e.buf_count]

\* mutant: the buffer counts as full one delta early
is_full_early(e) == e.buf_count >= DELTA_BUFF_SIZE - 1

is_full(e) == e.buf_count = DELTA_BUFF_SIZE

\* the k most recent deltas, oldest first (k <= buf_count)
last_k(e, k) ==
  [i \in 1..k |->
     e.delta_buf[((e.buf_head - k + i - 1 + DELTA_BUFF_SIZE) % DELTA_BUFF_SIZE) + 1]]

fast_path_ready(e) ==
  /\ e.buf_count >= STRIDE_LEN
  /\ LET l == last_k(e, STRIDE_LEN)
     IN /\ \A i \in 1..STRIDE_LEN : l[i] = l[STRIDE_LEN]
        /\ l[STRIDE_LEN] # 0

(***************************************************************************)
(* ConfidenceTracker                                                       *)
(***************************************************************************)
ConfMatch(c) == IF c < CONF_MAX THEN c + 1 ELSE CONF_MAX

\* mutant: the unsigned 8-bit counter decremented without the floor
ConfMiss_wrapping(c) == (c - CONF_MISS_PENALTY) % 256

ConfMiss(c) == IF c >= CONF_MISS_PENALTY THEN c - CONF_MISS_PENALTY ELSE 0

\* period, stability, pattern and phase back to the unlocked state
Unlock(e) ==
  [e EXCEPT !.period = 0, !.stability = 0, !.pattern = ZeroPattern, !.phase = 0]

ConfidenceCheck(e, actual_delta) ==
  IF ~e.has_prediction THEN e
  ELSE IF actual_delta = e.last_prediction
       THEN [e EXCEPT !.confidence = ConfMatch(e.confidence)]
       ELSE LET c == ConfMiss(e.confidence)
                e1 == [e EXCEPT !.confidence = c]
            IN IF c = 0 THEN Unlock(e1) ELSE e1

(***************************************************************************)
(* PatternReplayEngine                                                     *)
(***************************************************************************)
\* pattern[] <- the last P deltas of the buffer, phase <- 0
Lock(e) ==
  LET l == last_k(e, e.period)
  IN [e EXCEPT !.pattern = [i \in 1..MAX_PERIOD |-> IF i <= e.period THEN l[i] ELSE 0],
               !.phase = 0]

\* mutant: a period change clears the stability count
StabilityUpdate_cleared(e, best_period) ==
  IF best_period = e.period
  THEN [e EXCEPT !.stability = e.stability + 1]
  ELSE [e EXCEPT !.period = best_period, !.stability = 0]

StabilityUpdate(e, best_period) ==
  IF best_period = e.period
  THEN [e EXCEPT !.stability = e.stability + 1]
  ELSE [e EXCEPT !.period = best_period, !.stability = 1]

\* one spectral round on a full buffer
SpectralRound(e) ==
  LET best == detect(e.delta_buf, e.buf_head)
  IN IF ~PowerGreater(best.power, <<POWER_THRESHOLD, 0, 0>>) THEN e
     ELSE LET e1 == StabilityUpdate(e, best.period)
          IN IF e1.stability >= STABILITY_REQUIRED THEN Lock(e1) ELSE e1

\* mutant: the analysis not skipped on the fast path
AnalysisDue_unskipped(e) == is_full(e) /\ e.tick = 0

\* the round runs the analysis: not on the fast path, buffer full, every
\* ANALYSIS_INTERVAL-th access of the entry
AnalysisDue(e) == ~fast_path_ready(e) /\ is_full(e) /\ e.tick = 0

predicted_delta(e) == e.pattern[(e.phase % e.period) + 1]

advance(e) == [e EXCEPT !.phase = (e.phase + 1) % e.period]

(***************************************************************************)
(* PredictionGate                                                          *)
(***************************************************************************)
NoPrediction == [delta |-> 0, path |-> None]

NoRequest == [valid |-> FALSE, target |-> 0, fill_level |-> "far"]

\* mutant: the replay engine is asked first, the fast path second
Predict_replay_first(e) ==
  IF e.period # 0
  THEN [delta |-> predicted_delta(e), path |-> "replay"]
  ELSE IF fast_path_ready(e)
       THEN [delta |-> last_k(e, 1)[1], path |-> "fast"]
       ELSE NoPrediction

\* step 1: fast path if ready, else the replay engine if period != 0
Predict(e) ==
  IF fast_path_ready(e)
  THEN [delta |-> last_k(e, 1)[1], path |-> "fast"]
  ELSE IF e.period # 0
       THEN [delta |-> predicted_delta(e), path |-> "replay"]
       ELSE NoPrediction

\* mutant: the threshold compared one too low
ConfidentEnough_low(e, p) == p.path # None /\ e.confidence >= CONF_THRESHOLD - 1

\* step 2: a prediction exists and confidence reaches the threshold
ConfidentEnough(e, p) == p.path # None /\ e.confidence >= CONF_THRESHOLD

\* step 4: nearer level if confidence >= 5 and MSHR occupancy below 0.5
FillLevel(e, occ_low) == IF e.confidence >= 5 /\ occ_low THEN "near" ELSE "far"

\* steps 2-5 on the entry after the confidence and spectral updates
Gate(e, addr, p, occ_low) ==
  IF ~ConfidentEnough(e, p)
  THEN [entry |-> [e EXCEPT !.has_prediction = FALSE], request |-> NoRequest]
  ELSE LET pf_addr == PrefetchAddr(addr, p.delta)
       IN IF ~SamePage(pf_addr, addr)
          THEN [entry |-> e, request |-> NoRequest]
          ELSE LET e1 == [e EXCEPT !.last_prediction = p.delta,
                                   !.has_prediction = TRUE]
               IN [entry |-> IF p.path = "replay" THEN advance(e1) ELSE e1,
                   request |-> [valid |-> TRUE, target |-> pf_addr,
                                fill_level |-> FillLevel(e, occ_low)]]

(***************************************************************************)
(* One access round on one entry: steps 3-8 of the algorithm.  e is the    *)
(* resolved entry (fresh when is_new).  The result carries the entry, the  *)
(* request and what the round did.                                         *)
(***************************************************************************)
Observe(e, is_new, cl_addr) ==
  LET ticked == [e EXCEPT !.tick = (e.tick + 1) % ANALYSIS_INTERVAL]
  IN IF is_new THEN ticked
     ELSE LET delta == SignedDelta(cl_addr, e.last_cl_addr)
          IN ConfidenceCheck([push(ticked, delta) EXCEPT !.last_cl_addr = cl_addr],
                             delta)

AccessRound(e, is_new, addr, occ_low) ==
  LET cl_addr == LineOf(addr)
      finish(mid) ==
        LET due == AnalysisDue(mid)
            analysed(e2) ==
              LET p == Predict(e2)
                  g == Gate(e2, addr, p, occ_low)
              IN [entry |-> g.entry,
                  request |-> g.request,
                  mid |-> mid,
                  fast |-> fast_path_ready(mid),
                  analyzed |-> due,
                  locked |-> due /\ e2.stability >= STABILITY_REQUIRED
                                /\ e2.stability # mid.stability,
                  prediction |-> p]
        IN CHOOSE r \in {analysed(e2) :
                         e2 \in {IF due THEN SpectralRound(mid) ELSE mid}} : TRUE
  IN CHOOSE r \in {finish(mid) : mid \in {Observe(e, is_new, cl_addr)}} : TRUE

(***************************************************************************)
(* TrackerTable: entries keyed by ip, and the FIFO queue of insertion      *)
(* order used for eviction.                                                *)
(***************************************************************************)
\* mutant: at a full table a hit drops the oldest of the other entries
resolve_evict_on_hit(tbl, q, ip) ==
  IF ip \in DOMAIN tbl
  THEN IF Len(q) >= MaxTable /\ Head(q) # ip
       THEN [is_new |-> FALSE, evicted |-> {Head(q)}, queue |-> Tail(q)]
       ELSE [is_new |-> FALSE, evicted |-> {}, queue |-> q]
  ELSE IF Len(q) >= MaxTable
       THEN [is_new |-> TRUE, evicted |-> {Head(q)}, queue |-> Append(Tail(q), ip)]
       ELSE [is_new |-> TRUE, evicted |-> {}, queue |-> Append(q, ip)]

\* mutant: a hit moves the entry to the back of the queue (recency order)
resolve_recency(tbl, q, ip) ==
  IF ip \in DOMAIN tbl
  THEN [is_new |-> FALSE, evicted |-> {},
        queue |-> Append(SelectSeq(q, LAMBDA x : x # ip), ip)]
  ELSE IF Len(q) >= MaxTable
       THEN [is_new |-> TRUE, evicted |-> {Head(q)}, queue |-> Append(Tail(q), ip)]
       ELSE [is_new |-> TRUE, evicted |-> {}, queue |-> Append(q, ip)]

resolve(tbl, q, ip) ==
  IF ip \in DOMAIN tbl
  THEN [is_new |-> FALSE, evicted |-> {}, queue |-> q]
  ELSE IF Len(q) >= MaxTable
       THEN [is_new |-> TRUE, evicted |-> {Head(q)}, queue |-> Append(Tail(q), ip)]
       ELSE [is_new |-> TRUE, evicted |-> {}, queue |-> Append(q, ip)]

(***************************************************************************)
(* The environment: every IP issues the accesses of a delta stream.  A     *)
(* stream repeats the pattern `first` for its first n deltas and the       *)
(* pattern `then` afterwards.                                              *)
(***************************************************************************)
IPs == 1..(MaxTable + 1)

StreamDelta(st, i) ==
  IF i <= st.n THEN st.first[((i - 1) % Len(st.first)) + 1]
  ELSE st.then[((i - st.n - 1) % Len(st.then)) + 1]

Periodic(pat) == [first |-> pat, n |-> 0, then |-> pat]

VARIABLES
  table,     \* ip -> entry, for the tracked IPs
  queue,     \* the tracked IPs in insertion order, oldest first
  request,   \* what the last on_access returned: a request or NoRequest
  round,     \* what the last on_access did (history)
  pos,       \* ip -> number of accesses the IP has issued
  cur,       \* ip -> address of the IP's last access
  miss,      \* ip -> consecutive rounds whose delta differed from last_prediction
  born,      \* ip -> number of accesses made before the IP was last inserted
  scen       \* ip -> the stream, start address and access budget of the IP

vars == <<table, queue, request, round, pos, cur, miss, born, scen>>

NoRound ==
  [ip |-> 0, prev_ip |-> 0, addr |-> 0, is_new |-> FALSE, evicted |-> {},
   present_before |-> {}, delta |-> 0,
   pre |-> NewEntry(0, 0), mid |-> NewEntry(0, 0), fast |-> FALSE,
   analyzed |-> FALSE, locked |-> FALSE, prediction |-> NoPrediction]

RECURSIVE SumTo(_, _)
SumTo(f, n) == IF n = 0 THEN 0 ELSE f[n] + SumTo(f, n - 1)

\* the number of accesses made so far, over all IPs
Accesses == SumTo(pos, MaxTable + 1) - SumTo([ip \in IPs |-> scen[ip].start], MaxTable + 1)

NextAddr(ip) ==
  IF pos[ip] = 0 THEN scen[ip].base
  ELSE (cur[ip] + StreamDelta(scen[ip].stream, pos[ip]) * BLOCK_SIZE) % AddrSpace

(***************************************************************************)
(* on_access(address, ip_tag, was_hit): resolve the entry, run the round,  *)
(* store the entry back.  was_hit is not read by the algorithm.  occ_low   *)
(* is the collaborator's answer to "MSHR occupancy below 0.5".             *)
(***************************************************************************)
on_access(addr, ip, occ_low) ==
  LET rs == resolve(table, queue, ip)
      e0 == IF rs.is_new THEN NewEntry(ip, LineOf(addr)) ELSE table[ip]
      r == AccessRound(e0, rs.is_new, addr, occ_low)
      delta == IF rs.is_new THEN 0
               ELSE SignedDelta(LineOf(addr), e0.last_cl_addr)
      mismatch == ~rs.is_new /\ delta # e0.last_prediction
  IN /\ table' = [i \in ((DOMAIN table) \ rs.evicted) \cup {ip} |->
                    IF i = ip THEN r.entry ELSE table[i]]
     /\ queue' = rs.queue
     /\ request' = r.request
     /\ round' = [ip |-> ip, prev_ip |-> round.ip, addr |-> addr,
                   is_new |-> rs.is_new, evicted |-> rs.evicted,
                   present_before |-> DOMAIN table, delta |-> delta,
                   pre |-> e0, mid |-> r.mid, fast |-> r.fast,
                   analyzed |-> r.analyzed, locked |-> r.locked,
                   prediction |-> r.prediction]
     /\ miss' = [miss EXCEPT ![ip] = IF mismatch THEN miss[ip] + 1 ELSE 0]
     /\ born' = IF rs.is_new THEN [born EXCEPT ![ip] = Accesses] ELSE born

Access ==
  \E ip \in IPs, occ_low \in BOOLEAN :
    /\ pos[ip] < scen[ip].budget
    /\ on_access(NextAddr(ip), ip, occ_low)
    /\ pos' = [pos EXCEPT ![ip] = pos[ip] + 1]
    /\ cur' = [cur EXCEPT ![ip] = NextAddr(ip)]
    /\ UNCHANGED scen

\* on_fill(...) and on_cycle_tick(): no-ops
on_fill == UNCHANGED vars

on_cycle_tick == UNCHANGED vars

Next == Access \/ on_fill \/ on_cycle_tick

(***************************************************************************)
(* Scenarios.                                                              *)
(***************************************************************************)
Fresh ==
  [confidence |-> 0, has_prediction |-> FALSE, last_prediction |-> 0,
   emitted |-> FALSE]

Idle == [stream |-> Periodic(<<1>>), base |-> 0, budget |-> 0, start |-> 0,
         seed |-> Fresh]

Patterns ==
  { <<4>>, <<-4>>, <<4, 8>>, <<-8, 4>>, <<1, 2, 3>>, <<4, 4, 4, -12>>,
    <<1, 2, 3, 4, 5, 6>>, <<1, 1, 1, 1, 2, 3, 4, 5>>,
    <<1, 2, 3, 4, 5, 6, 7, 8, 9, 10, 11, 12>> }

Switching == { [first |-> <<1, 2>>, n |-> 27, then |-> <<4, 8, 12>>] }

\* one IP runs a long stream from a fresh table
LongRuns ==
  { [ip \in IPs |-> IF ip = 1
                    THEN [stream |-> st, base |-> b, budget |-> MaxRun,
                          start |-> 0, seed |-> Fresh]
                    ELSE Idle] :
      st \in {Periodic(pat) : pat \in Patterns} \cup Switching,
      b \in {0, 61 * BLOCK_SIZE} }

\* a delta that does not fit the element type of delta_buf
WideDelta == Pow2(DeltaBits - 1) + 8

\* one IP more than the table holds; the first two issue a few accesses,
\* the others one, in any interleaving
ShortRuns ==
  { [ip \in IPs |-> [stream |-> Periodic(<<d>>),
                     base |-> (ip * PAGE_SIZE) % AddrSpace,
                     budget |-> IF ip <= 2 THEN MaxShort ELSE 1,
                     start |-> 0, seed |-> Fresh]] :
      d \in {4, -1, WideDelta} }

Init ==
  /\ table = <<>>
  /\ queue = <<>>
  /\ request = NoRequest
  /\ round = NoRound
  /\ pos = [ip \in IPs |-> 0]
  /\ cur = [ip \in IPs |-> 0]
  /\ miss = [ip \in IPs |-> 0]
  /\ born = [ip \in IPs |-> 0]
  /\ scen \in LongRuns \cup ShortRuns

Spec == Init /\ [][Next]_vars

(***************************************************************************)
(* The access round as a function of the entry.  SpecEntry starts IP 1     *)
(* from an entry as it stands after SeedAccesses accesses of a periodic    *)
(* stream (buffer full, three agreeing spectral rounds, pattern just       *)
(* locked), with every value of confidence and of the pending prediction,  *)
(* at an address in the middle of a page, at either end of a page, and at  *)
(* either end of the address space.                                        *)
(***************************************************************************)
SeedAccesses == DELTA_BUFF_SIZE + STABILITY_REQUIRED * ANALYSIS_INTERVAL

SeedPatterns == { <<4>>, <<-4>>, <<4, 8>>, <<-8, 4>>, <<1, 2, 3>> }

SeedEntry(pat, cl_addr) ==
  LET k == SeedAccesses - 1       \* deltas pushed so far
      P == Len(pat)
      D(j) == StreamDelta(Periodic(pat), j)
  IN [ip |-> 1,
      last_cl_addr |-> cl_addr,
      delta_buf |-> [s \in 1..DELTA_BUFF_SIZE |->
                       D(k - ((k - s) % DELTA_BUFF_SIZE))],
      buf_head |-> k % DELTA_BUFF_SIZE,
      buf_count |-> DELTA_BUFF_SIZE,
      pattern |-> [i \in 1..MAX_PERIOD |->
                     IF P > 1 /\ i <= P THEN D(k - P + i) ELSE 0],
      period |-> IF P > 1 THEN P ELSE 0,
      phase |-> 0,
      confidence |-> 0,
      stability |-> IF P > 1 THEN STABILITY_REQUIRED ELSE 0,
      last_prediction |-> 0,
      has_prediction |-> FALSE,
      tick |-> SeedAccesses % ANALYSIS_INTERVAL]

SeedLines == {2, 33, 60, LineSpace - 3}

SeedStreams(pat) ==
  {Periodic(pat)} \cup
  (IF Len(pat) > 1 THEN {[first |-> pat, n |-> SeedAccesses - 1, then |-> <<1>>]}
   ELSE {}) \cup
  (IF Len(pat) = 3
   THEN {[first |-> pat, n |-> SeedAccesses - 1, then |-> <<20, -20>>]}
   ELSE {})

\* emitted: the locking round itself emitted the replay prediction
Seeds ==
  { sd \in { [stream |-> st, line |-> l, confidence |-> c,
              has_prediction |-> hp, last_prediction |-> lp,
              emitted |-> em] :
               st \in UNION {SeedStreams(pat) : pat \in SeedPatterns},
               l \in SeedLines, c \in 0..CONF_MAX, hp \in BOOLEAN,
               lp \in {0, 4}, em \in BOOLEAN } :
      /\ sd.has_prediction \/ sd.last_prediction = 0
      /\ sd.emitted => /\ Len(sd.stream.first) > 1
                       /\ sd.has_prediction /\ sd.last_prediction = 0 }

Seeded(sd) ==
  LET e == [SeedEntry(sd.stream.first, sd.line) EXCEPT
              !.confidence = sd.confidence,
              !.has_prediction = sd.has_prediction,
              !.last_prediction = sd.last_prediction]
  IN IF sd.emitted
     THEN [advance(e) EXCEPT !.last_prediction = predicted_delta(e)]
     ELSE e

InitEntry ==
  \E sd \in Seeds :
    /\ table = (1 :> Seeded(sd))
    /\ queue = <<1>>
    /\ request = NoRequest
    /\ round = NoRound
    /\ pos = [ip \in IPs |-> IF ip = 1 THEN SeedAccesses ELSE 0]
    /\ cur = [ip \in IPs |-> IF ip = 1 THEN sd.line * BLOCK_SIZE ELSE 0]
    /\ miss = [ip \in IPs |-> 0]
    /\ born = [ip \in IPs |-> 0]
    /\ scen = [ip \in IPs |->
                 IF ip = 1
                 THEN [stream |-> sd.stream, base |-> sd.line * BLOCK_SIZE,
                       budget |-> SeedAccesses + MaxAfter,
                       start |-> SeedAccesses,
                       seed |-> [confidence |-> sd.confidence,
                                 has_prediction |-> sd.has_prediction,
                                 last_prediction |-> Seeded(sd).last_prediction,
                                 emitted |-> sd.emitted]]
                 ELSE Idle]

\* the fresh scenarios of Spec together with the seeded entries
SpecEntry == (Init \/ InitEntry) /\ [][Next]_vars

\* the seeds are the entries the program builds, up to the confidence state
SeedIsBuilt ==
  \A pat \in SeedPatterns :
    (round.ip = 1 /\ pos[1] = SeedAccesses /\ scen[1].stream = Periodic(pat))
      => table[1] = SeedEntry(pat, LineOf(cur[1]))

(***************************************************************************)
(* Claims.  tracked is the entry of the IP of the last round.              *)
(***************************************************************************)
HadRound == round.ip # 0

tracked == table[round.ip]

\* the address a request for the round's predicted delta would have
Candidate == (round.addr + round.prediction.delta * BLOCK_SIZE) % AddrSpace

\* C1: every emitted request targets current_address + predicted_delta *
\* line_size, and that address lies on the page of the access that
\* produced it; a candidate on another page is withheld.
C1_SamePageOnly ==
  request.valid =>
    /\ round.prediction.path # None
    /\ request.target = Candidate
    /\ request.target \div PAGE_SIZE = round.addr \div PAGE_SIZE

\* a request for a negative delta was emitted, inside the page
C1_Witness ==
  /\ request.valid
  /\ round.prediction.delta < 0
  /\ request.target < round.addr

\* C2: an unseen ip arriving at a full table evicts exactly one entry, the
\* one inserted earliest among those present, whatever was hit since; the
\* table never holds more than its capacity.
C2_FifoEviction ==
  /\ Cardinality(DOMAIN table) <= MaxTable
  /\ HadRound =>
       /\ (round.is_new /\ Cardinality(round.present_before) = MaxTable)
            => /\ Cardinality(round.evicted) = 1
               /\ round.evicted \subseteq round.present_before
               /\ \A v \in round.evicted, j \in round.present_before :
                     born[v] <= born[j]
       /\ ~(round.is_new /\ Cardinality(round.present_before) = MaxTable)
            => round.evicted = {}
       /\ DOMAIN table = (round.present_before \ round.evicted) \cup {round.ip}

\* the evicted entry was the one accessed (hit) in the round just before
C2_Witness ==
  /\ HadRound
  /\ round.evicted = {round.prev_ip}
  /\ pos[round.prev_ip] >= 2
  /\ \E j \in DOMAIN table : j # round.ip /\ born[j] > born[round.prev_ip]

\* C3: confidence stays within [0,7]; a match adds 1 and saturates at 7, a
\* mismatch subtracts 2 and floors at 0.
C3_ConfidenceRange ==
  /\ \A ip \in DOMAIN table : table[ip].confidence \in 0..CONF_MAX
  /\ (HadRound /\ ~round.is_new /\ round.pre.has_prediction) =>
       LET c == round.pre.confidence
       IN /\ tracked.confidence = round.mid.confidence
          /\ round.delta = round.pre.last_prediction
               => round.mid.confidence = (IF c = 7 THEN 7 ELSE c + 1)
          /\ round.delta # round.pre.last_prediction
               => round.mid.confidence = (IF c <= 1 THEN 0 ELSE c - 2)

\* a mismatch at confidence 1 left confidence 0
C3_Witness ==
  /\ HadRound /\ ~round.is_new /\ round.pre.has_prediction
  /\ round.delta # round.pre.last_prediction
  /\ round.pre.confidence = 1
  /\ tracked.confidence = 0

\* C4: no request is returned when, after the confidence update of the
\* call, confidence is below 3 or no predicted delta is available (fast
\* path not ready and period = 0).
C4_Withheld ==
  HadRound =>
    ((round.mid.confidence < 3
      \/ (~fast_path_ready(tracked) /\ tracked.period = 0))
       => ~request.valid)

\* a predicted delta was available, confidence was 2, nothing was returned
C4_Witness ==
  /\ HadRound
  /\ round.prediction.path # None
  /\ round.mid.confidence = 2
  /\ ~request.valid

\* the stream of the IP of the last round
stream == scen[round.ip].stream

\* the whole stream is one constant nonzero delta
ConstantStream == Len(stream.first) = 1 /\ stream.then = stream.first

\* the whole stream repeats one pattern of candidate length
PeriodicStream ==
  /\ stream.then = stream.first
  /\ Len(stream.first) \in {2, 3, 4, 6, 8, 12}

\* C5: a previously unseen IP with the delta stream 4,4,4,... gets a
\* request at its 5th access and at every later one (while the target
\* stays on the page), for current address + 4 lines, from the fast path.
C5_RequestFromFifthAccess ==
  (HadRound /\ scen[round.ip].start = 0 /\ stream = Periodic(<<4>>)
   /\ pos[round.ip] >= 5
   /\ (round.addr + 4 * BLOCK_SIZE) \div PAGE_SIZE = round.addr \div PAGE_SIZE) =>
    /\ request.valid
    /\ request.target = round.addr + 4 * BLOCK_SIZE
    /\ round.prediction.path = "fast"

\* C6: on a constant nonzero delta stream the spectral analyzer never
\* runs, period and stability stay 0, and every predicted delta comes
\* from the fast path.
C6_ConstantStreamNeverAnalysed ==
  (HadRound /\ ConstantStream) =>
    /\ ~round.analyzed
    /\ tracked.period = 0
    /\ tracked.stability = 0
    /\ round.prediction.path \in {None, "fast"}

\* the buffer is full and the cadence is due, and the round took the fast path
C6_Witness ==
  /\ HadRound /\ ConstantStream
  /\ tracked.buf_count = DELTA_BUFF_SIZE
  /\ tracked.tick = 0
  /\ round.prediction.path = "fast"

\* C7: on a stream that is exactly periodic with period P, after 24 + 3*4
\* accesses the period is P, and a lock leaves the most recent P deltas
\* in the pattern.
C7_PeriodConverges ==
  (HadRound /\ scen[round.ip].start = 0 /\ PeriodicStream
   /\ pos[round.ip] >= SeedAccesses) =>
    LET P == Len(stream.first)
    IN /\ tracked.period = P
       /\ round.locked => SubSeq(tracked.pattern, 1, P) = last_k(tracked, P)

\* the seed of the IP of the last round
seed == scen[round.ip].seed

\* the delta the stream produces at the next access of the round's IP
NextDelta == StreamDelta(stream, pos[round.ip])

StabilityDecreased ==
  HadRound /\ ~round.is_new /\ tracked.stability < round.pre.stability

RoundPower(P) ==
  goertzel_power(round.mid.delta_buf, round.mid.buf_head, DELTA_BUFF_SIZE, P)

\* what detect returns on the buffer the round analysed
RoundBest == detect(round.mid.delta_buf, round.mid.buf_head)

\* C11: detect returns a candidate whose power is maximal among the six,
\* and the smallest of the candidates that share the maximal power.
C11_DetectArgmaxSmallest ==
  (HadRound /\ round.analyzed) =>
    LET best == RoundBest
    IN /\ best.period \in {2, 3, 4, 6, 8, 12}
       /\ best.power = RoundPower(best.period)
       /\ \A P \in {2, 3, 4, 6, 8, 12} :
            /\ ~PowerGreater(RoundPower(P), best.power)
            /\ RoundPower(P) = best.power => best.period <= P

\* an analysed buffer on which two candidates share a nonzero maximum
C11_Witness ==
  /\ HadRound /\ round.analyzed
  /\ PowerGreater(RoundBest.power, <<0, 0, 0>>)
  /\ \E P \in {2, 3, 4, 6, 8, 12} :
       P # RoundBest.period /\ RoundPower(P) = RoundBest.power

\* the seed of ip is one the gate can leave behind: a prediction is
\* pending only at confidence >= 3 (every fresh entry is such a seed)
GateConsistent(ip) ==
  /\ scen[ip].seed.has_prediction => scen[ip].seed.confidence >= CONF_THRESHOLD
  /\ scen[ip].seed.emitted => scen[ip].seed.confidence >= CONF_THRESHOLD

C13_ReplayOnlyWhenLocked ==
  HadRound =>
    /\ round.prediction.path = "replay" =>
         /\ tracked.period # 0
         /\ tracked.stability >= STABILITY_REQUIRED
    /\ (tracked.period # 0 /\ tracked.stability < STABILITY_REQUIRED) =>
         round.prediction.path # "replay"

C15_AnalysisCadence ==
  HadRound =>
    /\ round.analyzed =>
         /\ round.mid.buf_count = DELTA_BUFF_SIZE
         /\ pos[round.ip] % ANALYSIS_INTERVAL = 0
    /\ round.mid.buf_count < DELTA_BUFF_SIZE => ~round.analyzed
    /\ ~round.analyzed =>
         /\ tracked.period = round.mid.period
         /\ tracked.stability = round.mid.stability
         /\ tracked.pattern = round.mid.pattern

\* the access before the buffer fills: the cadence is due, the round skips
C15_Witness ==
  /\ HadRound /\ ~round.fast /\ ~round.analyzed
  /\ round.mid.tick = 0
  /\ round.mid.buf_count = DELTA_BUFF_SIZE - 1

Min(a, b) == IF a < b THEN a ELSE b

\* C16: after n pushes count is min(n, 24) and last_k(k), k <= count, is
\* the last k pushed deltas, oldest first; a push on a full buffer drops
\* exactly the oldest retained delta (the value kept of a delta wider
\* than a slot is C17's subject).  Stated per push (the buffer after
\* a round against the buffer before it) and, for the IP of a long run,
\* whose entry lives from its first access, against the stream itself.
C16_BufferKeepsLastDeltas ==
  (HadRound /\ ~round.is_new) =>
    LET n == pos[round.ip] - 1      \* pushes made by the long-run IP
    IN /\ tracked.buf_count = Min(round.pre.buf_count + 1, DELTA_BUFF_SIZE)
       /\ \A k \in 1..tracked.buf_count :
            /\ round.delta # WideDelta => last_k(tracked, k)[k] = round.delta
            /\ \A i \in 1..(k - 1) :
                 last_k(tracked, k)[i] = last_k(round.pre, k - 1)[i]
       /\ scen[round.ip].budget = MaxRun =>
            /\ tracked.buf_count = Min(n, DELTA_BUFF_SIZE)
            /\ \A k \in 1..tracked.buf_count : \A i \in 1..k :
                 last_k(tracked, k)[i] = StreamDelta(stream, n - k + i)

\* the 26th access of a stream that is not constant: the second push on
\* a full buffer
C16_Witness ==
  /\ HadRound /\ ~ConstantStream
  /\ scen[round.ip].budget = MaxRun
  /\ pos[round.ip] = DELTA_BUFF_SIZE + 2
  /\ round.pre.buf_count = DELTA_BUFF_SIZE

C20_OtherEntriesUntouched ==
  [][LET A == round'.ip
         others == (DOMAIN table) \ {A}
         removed == others \ (DOMAIN table')
     IN /\ \A i \in others \ removed : table'[i] = table[i]
        /\ Cardinality(removed) <= 1
        /\ removed # {} => (A \notin DOMAIN table /\ Len(queue) >= MaxTable)
        /\ A \in DOMAIN table =>
             (DOMAIN table' = DOMAIN table /\ queue' = queue)]_vars

\* an unseen IP took the place of one entry of a full table, and the
\* entry that stayed has a delta in its buffer
C20_Witness ==
  /\ HadRound
  /\ Len(queue) = MaxTable
  /\ round.is_new /\ round.evicted # {}
  /\ \E i \in (DOMAIN table) \ {round.ip} : table[i].buf_count >= 1
====
